---- MODULE Spec2Model ----
(***************************************************************************)
(* A model of the frame readers of lib/video.py (pacefactory/aruco_tester): *)
(* VideoStreamReader (webcam / rtsp), VideoFileReader, ImageFileReader and  *)
(* the factory make_video_reader.                                           *)
(*                                                                          *)
(* Two specifications are given.  Spec starts from a constructed reader of  *)
(* one of the four kinds and lets a caller use its methods.  SpecResolve    *)
(* starts from an identifier and a file system and applies                  *)
(* make_video_reader to it.                                                 *)
(*                                                                          *)
(* Time is counted in tenths of a millisecond, so that the conversions of   *)
(* the code (int(1000 * dt), round(1000 * dt)) are not the identity.        *)
(* Playback positions are fractions a/b.  A frame of a video file is named  *)
(* by its index, a frame of a live stream by the number of the fetch that   *)
(* obtained it (modulo FrameIds), the content of an image by one pixel.     *)
(***************************************************************************)
EXTENDS Integers, Sequences, FiniteSets, TLC

\* ------------------------------------------------------------------ bounds

\* Largest frame count (metadata and actual) of the small video files.
MaxFrames == 3
\* Largest denominator of a playback position a/b.
PosDen == 4
\* Largest max_frames_to_exhaust a caller passes.
MaxExhaust == 3
\* Live frames are numbered modulo FrameIds.
FrameIds == 3
\* The count of fetches of one call saturates here (history only).
MaxFetch == 3
\* Pixel values are 0..MaxPix.
MaxPix == 2

\* --------------------------------------------------------- program values

\* VideoStreamReader.__init__(..., min_read_time_ms = 10)
min_read_time_ms == 10

\* Fetch durations, in tenths of a millisecond, around both thresholds.
Durations == {5, 75, 100, 105, 110, 274, 275}

\* cap.get(cv2.CAP_PROP_FPS) of a live source; some backends report 0.
FpsSet == {0, 30, 100}

\* (metadata frame count, decodable frames) of a video file.  The metadata
\* may be 0 (unknown) or differ from what decodes.  One 100-frame file.
FileShapes ==
    { <<t, n>> : t \in 0..MaxFrames, n \in 1..MaxFrames } \cup { <<100, 100>> }

\* Playback positions p = a/b in [0, 1].
Positions == { <<a, b>> \in (0..PosDen) \X (1..PosDen) : a <= b }

Pixels == 0..MaxPix

Min(x, y) == IF x <= y THEN x ELSE y
Abs(x) == IF x < 0 THEN -x ELSE x

\* ---------------------------------------------------------------- helpers

\* Python's round(n / d) for n >= 0, d > 0: to the nearest integer, a tie
\* to the even one.
PyRound(n, d) ==
    LET q == n \div d
        r == n % d
    IN  IF 2 * r < d THEN q
        ELSE IF 2 * r > d THEN q + 1
        ELSE IF q % 2 = 0 THEN q ELSE q + 1

\* ------------------------------------------------------------------ state

VARIABLES
    kind,           \* "none" | "image" | "video" | "webcam" | "rtsp"
    ret,            \* the last call: its outcome (or its progress so far)
    \* -- VideoFileReader
    total_frames,   \* _total_frames: cap.get(CAP_PROP_FRAME_COUNT), metadata
    num_frames,     \* frames the file really decodes
    cap_pos,        \* cap.get(CAP_PROP_POS_FRAMES): index of the next frame
    cap_alive,      \* the capture still delivers data
    seq,            \* history: the run of consecutive advance() calls
    \* -- ImageFileReader
    heap,           \* image objects: self._image and the caller's frame
    img0,           \* history: the image as loaded at construction
    frame_ref,      \* the object the caller received last
    annotated,      \* history: "never" | "dirty" (the caller modified a frame
                    \* it received) | "reread" (and has read again since)
    \* -- VideoStreamReader (live)
    fps,            \* cap.get(CAP_PROP_FPS)
    pc,             \* "idle" | "read" (in read's loop) | "exhaust" (in its loop)
    fetch,          \* the last cap.grab(): duration, success, frame obtained
    nfetch,         \* history: fetches made by the current read / exhaust
    nfast,          \* history: fetches of this exhaust measured under threshold
    ex_max,         \* max_frames_to_exhaust of the current exhaust call
    ex_N,           \* the loop variable N of exhaust (-1: not bound)
    \* -- make_video_reader
    ident,          \* the identifier, a sequence of characters
    fs,             \* the file system: path -> what the file decodes as
    stream_ok,      \* whether the device / url opens as a capture
    resolved,       \* what make_video_reader did
    cap_log,        \* history: captures opened and released while resolving
    \* -- PlaybackBar
    pb_enable,          \* _enable
    pb_mouse_pressed,   \* _mouse_pressed
    pb_x_norm,          \* _x_norm, the fraction <<a, b>>
    pb_base_img,        \* _base_img.shape: <<height, width>>
    pb_interact_y1y2,   \* _interact_y1y2
    pb_ret,             \* the last call on the bar and its outcome
    pb_seen,            \* history: the most recent mouse event
    \* -- the main script
    main_pc,        \* where the script is, from the reader's construction on
    releases,       \* history: calls of vread.release()
    main_end,       \* history: what ended the run, inside the try or not
    \* -- SelectionBar (one per bar of the script) and ArucoDetector
    sel,            \* bar -> its _idx_select, _enable, _base_img, ...
    sel_ret,        \* the last call on a selection bar and its outcome
    det_select,     \* <<_size_select, _maxid_select>>
    det_ret         \* the last process_frame: its lookup

fileVars == <<total_frames, num_frames, cap_pos, cap_alive, seq>>
imageVars == <<heap, img0, frame_ref, annotated>>
liveVars == <<fps, pc, fetch, nfetch, nfast, ex_max, ex_N>>
factoryVars == <<ident, fs, stream_ok, resolved, cap_log>>

\* Everything around the reader: a reader's own methods leave it alone.
barVars ==
    <<pb_enable, pb_mouse_pressed, pb_x_norm, pb_base_img, pb_interact_y1y2,
      pb_ret, pb_seen>>
mainVars == <<main_pc, releases, main_end>>
selVars == <<sel, sel_ret, det_select, det_ret>>
appVars == <<factoryVars, barVars, mainVars, selVars>>

vars == <<kind, ret, fileVars, imageVars, liveVars, appVars>>

\* The record every call leaves in ret.  shape is what the call returned:
\* "frame", "pair" (success, frame), "bool", "float", "self", or "none"
\* when it raised (exc) or has not returned yet.
NoRet ==
    [op |-> "none", shape |-> "none", exc |-> "none", ok |-> FALSE,
     frame |-> -1, reads |-> 0, seeks |-> 0, pos0 |-> 0, a |-> 0, b |-> 1,
     val |-> FALSE]

NoSeq == [src |-> "other", a |-> 0, b |-> 1, n |-> 0]
NoFetch == [d |-> 0, ok |-> FALSE, id |-> 0]
Refs == {"image", "copy"}

IsLive == kind \in {"webcam", "rtsp"}

\* ------------------------------------------------- VideoStreamReader.__next__

\* What __next__ does with the outcome of its attempt-th read():
\*   read_ok, frame_bgr = self.read()
\*   if not read_ok:
\*       self.cap.set(cv2.CAP_PROP_POS_FRAMES, 0)
\*       read_ok, frame_bgr = self.read()
\*       if not read_ok: raise IOError(...)
\*   return frame_bgr
NextStep_noretry(attempt, read_ok) ==
    IF read_ok THEN "return" ELSE "raise"

NextStep(attempt, read_ok) ==
    IF read_ok THEN "return"
    ELSE IF attempt = 1 THEN "retry"
    ELSE "raise"

\* self.cap.set(cv2.CAP_PROP_POS_FRAMES, 0) on a file capture.
SeekOnExhaust_stay(pos) == pos

SeekOnExhaust(pos) == 0

\* ------------------------------------------------------------ VideoFileReader

\* self.cap.read() on a file: the frame at the position and a step forward,
\* or (False, None) at the end of the file or on a dead capture.
CapRead(pos, n, alive) ==
    IF alive /\ pos < n
    THEN [ok |-> TRUE, frame |-> pos, pos |-> pos + 1]
    ELSE [ok |-> FALSE, frame |-> -1, pos |-> pos]

\* __next__ on a file, whose read() does not loop: the whole call.
FileAdvance(pos, n, alive) ==
    LET r1 == CapRead(pos, n, alive)
        s1 == NextStep(1, r1.ok)
        p2 == SeekOnExhaust(r1.pos)
        r2 == CapRead(p2, n, alive)
        s2 == NextStep(2, r2.ok)
    IN  IF s1 = "return"
        THEN [exc |-> "none", ok |-> TRUE, frame |-> r1.frame, pos |-> r1.pos,
              reads |-> 1, seeks |-> 0]
        ELSE IF s1 = "raise"
        THEN [exc |-> "IOError", ok |-> FALSE, frame |-> -1, pos |-> r1.pos,
              reads |-> 1, seeks |-> 0]
        ELSE IF s2 = "return"
        THEN [exc |-> "none", ok |-> TRUE, frame |-> r2.frame, pos |-> r2.pos,
              reads |-> 2, seeks |-> 1]
        ELSE [exc |-> "IOError", ok |-> FALSE, frame |-> -1, pos |-> r2.pos,
              reads |-> 2, seeks |-> 1]

\* round(self._total_frames * position_norm_01), the position being a/b.
SeekTarget_unscaled(t, a, b) == PyRound(a, b)

SeekTarget(t, a, b) == PyRound(t * a, b)

\* min(1.0, pos / total): its numerator over the denominator total (> 0).
PlaybackFraction_noclamp(pos, t) == pos

PlaybackFraction(pos, t) == Min(pos, t)

\* for frame in vread / next(vread) on a video file.
FileNext ==
    /\ kind = "video"
    /\ LET r == FileAdvance(cap_pos, num_frames, cap_alive)
       IN  /\ cap_pos' = r.pos
           /\ ret' = [NoRet EXCEPT !.op = "next",
                        !.shape = IF r.exc = "none" THEN "frame" ELSE "none",
                        !.exc = r.exc, !.ok = r.ok, !.frame = r.frame,
                        !.reads = r.reads, !.seeks = r.seeks, !.pos0 = cap_pos]
    /\ seq' = IF seq.src = "other" THEN seq
              ELSE [seq EXCEPT !.n = Min(seq.n + 1, num_frames + 2)]
    /\ UNCHANGED <<kind, total_frames, num_frames, cap_alive>>
    /\ UNCHANGED <<imageVars, liveVars, appVars>>

\* VideoFileReader.read(): return self.cap.read()
FileRead ==
    /\ kind = "video"
    /\ LET r == CapRead(cap_pos, num_frames, cap_alive)
       IN  /\ cap_pos' = r.pos
           /\ ret' = [NoRet EXCEPT !.op = "read", !.shape = "pair",
                        !.ok = r.ok, !.frame = r.frame, !.reads = 1,
                        !.pos0 = cap_pos]
    /\ seq' = NoSeq
    /\ UNCHANGED <<kind, total_frames, num_frames, cap_alive>>
    /\ UNCHANGED <<imageVars, liveVars, appVars>>

\* VideoFileReader.set_playback_position(a / b)
SetPlaybackPosition ==
    /\ kind = "video"
    /\ \E p \in Positions :
          /\ cap_pos' = SeekTarget(total_frames, p[1], p[2])
          /\ ret' = [NoRet EXCEPT !.op = "set", !.shape = "self",
                       !.pos0 = cap_pos, !.a = p[1], !.b = p[2]]
          /\ seq' = [src |-> "set", a |-> p[1], b |-> p[2], n |-> 0]
    /\ UNCHANGED <<kind, total_frames, num_frames, cap_alive>>
    /\ UNCHANGED <<imageVars, liveVars, appVars>>

\* VideoFileReader.get_playback_position(): the fraction ret.a / ret.b, or
\* a ZeroDivisionError when the metadata reports no frames.
GetPlaybackPosition ==
    /\ kind = "video"
    /\ ret' = IF total_frames = 0
              THEN [NoRet EXCEPT !.op = "get", !.exc = "ZeroDivisionError",
                      !.pos0 = cap_pos]
              ELSE [NoRet EXCEPT !.op = "get", !.shape = "float",
                      !.pos0 = cap_pos,
                      !.a = PlaybackFraction(cap_pos, total_frames),
                      !.b = total_frames]
    /\ UNCHANGED <<kind, fileVars, imageVars, liveVars, appVars>>

\* The medium of the file goes away: every later cap.read() fails.
Disconnect ==
    /\ kind = "video"
    /\ cap_alive
    /\ cap_alive' = FALSE
    /\ UNCHANGED <<kind, ret, total_frames, num_frames, cap_pos, seq>>
    /\ UNCHANGED <<imageVars, liveVars, appVars>>

\* ----------------------------------------------------------- ImageFileReader

\* self._image.copy(): a new object holding the stored image's content.
ImageCopy_alias(h) == [ref |-> "image", heap |-> h]

ImageCopy(h) == [ref |-> "copy", heap |-> [h EXCEPT !["copy"] = h["image"]]]

\* ImageFileReader.read(): return self._image.copy()  (a frame, no flag)
ImageRead ==
    /\ kind = "image"
    /\ LET c == ImageCopy(heap)
       IN  /\ heap' = c.heap
           /\ frame_ref' = c.ref
           /\ ret' = [NoRet EXCEPT !.op = "read", !.shape = "frame",
                        !.frame = c.heap[c.ref]]
    /\ annotated' = IF annotated = "never" THEN "never" ELSE "reread"
    /\ UNCHANGED <<kind, img0, fileVars, liveVars, appVars>>

\* ImageFileReader.__next__(): return self.read()
ImageNext ==
    /\ kind = "image"
    /\ LET c == ImageCopy(heap)
       IN  /\ heap' = c.heap
           /\ frame_ref' = c.ref
           /\ ret' = [NoRet EXCEPT !.op = "next", !.shape = "frame",
                        !.frame = c.heap[c.ref]]
    /\ annotated' = IF annotated = "never" THEN "never" ELSE "reread"
    /\ UNCHANGED <<kind, img0, fileVars, liveVars, appVars>>

\* A caller writes into the frame it received (the frame of a tick is the
\* caller's to resize, draw on and stack bars under).
Annotate ==
    /\ kind = "image"
    /\ frame_ref \in Refs
    /\ \E v \in Pixels :
          /\ v # heap[frame_ref]
          /\ heap' = [heap EXCEPT ![frame_ref] = v]
    /\ annotated' = "dirty"
    /\ UNCHANGED <<kind, ret, img0, frame_ref, fileVars, liveVars, appVars>>

\* ------------------------------------------------ VideoStreamReader (live)

\* time_taken_ms = int(1000 * (t2 - t1)): whole milliseconds, truncated.
TimeTakenMs(d) == d \div 10

\* The exit test of read()'s loop:
\*   if (time_taken_ms > self._min_read_time_ms) or (not rec_frame): break
ReadLoopBreaks(d, rec_frame) ==
    (TimeTakenMs(d) > min_read_time_ms) \/ ~rec_frame

\* rec_frame, frame = self.cap.retrieve() if rec_frame else (rec_frame, None)
\* retrieve() decodes the frame of the last grab(); dec is whether it could.
Retrieve(f, dec) ==
    IF f.ok /\ dec
    THEN [ok |-> TRUE, frame |-> f.id]
    ELSE [ok |-> FALSE, frame |-> -1]

\* read_ms_threshold = round(0.85 * 1000.0 / video_fps), for video_fps > 0
ReadMsThreshold(video_fps) == PyRound(850, video_fps)

\* read_time_ms = round(1000 * (t2 - t1)): whole milliseconds, rounded.
ReadTimeMs(d) == PyRound(d, 10)

\* long_read_time = (read_time_ms >= read_ms_threshold)
LongReadTime(d, video_fps) == ReadTimeMs(d) >= ReadMsThreshold(video_fps)

\* had_buffered_frames = N > 0
HadBufferedFrames(N) == N > 0

\* One more cap.grab() of a live capture: the next frame of the stream.
Grabbed(d, ok) == [d |-> d, ok |-> ok, id |-> (fetch.id + 1) % FrameIds]

\* next(vread) on a live source: __next__ enters its first read().
LiveCallNext ==
    /\ IsLive /\ pc = "idle"
    /\ pc' = "read"
    /\ nfetch' = 0
    /\ ret' = [NoRet EXCEPT !.op = "next"]
    /\ UNCHANGED <<kind, fps, fetch, nfast, ex_max, ex_N>>
    /\ UNCHANGED <<fileVars, imageVars, appVars>>

\* vread.read() on a live source, called directly.
LiveCallRead ==
    /\ IsLive /\ pc = "idle"
    /\ pc' = "read"
    /\ nfetch' = 0
    /\ ret' = [NoRet EXCEPT !.op = "read"]
    /\ UNCHANGED <<kind, fps, fetch, nfast, ex_max, ex_N>>
    /\ UNCHANGED <<fileVars, imageVars, appVars>>

\* What follows a read() that returned r, in the call that made it: read()
\* itself returns to its caller, or __next__ goes on (lines 80 to 86); the
\* seek of __next__ changes nothing in a live capture.
AfterRead(r) ==
    IF ret.op = "read"
    THEN /\ pc' = "idle"
         /\ ret' = [ret EXCEPT !.shape = "pair", !.ok = r.ok,
                      !.frame = r.frame, !.reads = 1]
         /\ UNCHANGED nfetch
    ELSE LET s == NextStep(ret.reads + 1, r.ok)
         IN  IF s = "return"
             THEN /\ pc' = "idle"
                  /\ ret' = [ret EXCEPT !.shape = "frame", !.ok = TRUE,
                               !.frame = r.frame, !.reads = @ + 1]
                  /\ UNCHANGED nfetch
             ELSE IF s = "retry"
             THEN /\ pc' = "read"
                  /\ ret' = [ret EXCEPT !.reads = @ + 1, !.seeks = @ + 1]
                  /\ nfetch' = 0
             ELSE /\ pc' = "idle"
                  /\ ret' = [ret EXCEPT !.exc = "IOError", !.reads = @ + 1]
                  /\ UNCHANGED nfetch

\* One pass of the loop of read(): a grab that took d and gave ok.  A pass
\* that does not break leaves the call in the loop; one that breaks goes on
\* to retrieve() and to whatever follows read().
LiveGrab ==
    /\ IsLive /\ pc = "read"
    /\ \E d \in Durations, ok \in BOOLEAN, dec \in BOOLEAN :
          /\ fetch' = Grabbed(d, ok)
          /\ IF ReadLoopBreaks(d, ok)
             THEN AfterRead(Retrieve(fetch', dec))
             ELSE /\ nfetch' = Min(nfetch + 1, MaxFetch)
                  /\ UNCHANGED <<pc, ret>>
    /\ UNCHANGED <<kind, fps, nfast, ex_max, ex_N>>
    /\ UNCHANGED <<fileVars, imageVars, appVars>>

\* vread.exhaust_buffered_frames(m) on a live source, up to its loop: the
\* threshold divides by video_fps, and with m = 0 the loop binds no N for
\* the line after it.
LiveCallExhaust ==
    /\ IsLive /\ pc = "idle"
    /\ \E m \in 0..MaxExhaust :
          /\ ex_max' = m
          /\ IF fps = 0
             THEN /\ ret' = [NoRet EXCEPT !.op = "exhaust",
                               !.exc = "ZeroDivisionError"]
                  /\ pc' = "idle"
             ELSE IF m = 0
             THEN /\ ret' = [NoRet EXCEPT !.op = "exhaust",
                               !.exc = "UnboundLocalError"]
                  /\ pc' = "idle"
             ELSE /\ ret' = [NoRet EXCEPT !.op = "exhaust"]
                  /\ pc' = "exhaust"
    /\ ex_N' = -1
    /\ nfetch' = 0
    /\ nfast' = 0
    /\ UNCHANGED <<kind, fps, fetch>>
    /\ UNCHANGED <<fileVars, imageVars, appVars>>

\* One pass of the loop of exhaust_buffered_frames, and what follows the
\* loop when this pass is its last.
ExhaustGrab ==
    /\ IsLive /\ pc = "exhaust"
    /\ \E d \in Durations, ok \in BOOLEAN :
          LET N == ex_N + 1
          IN  /\ fetch' = Grabbed(d, ok)
              /\ ex_N' = N
              /\ nfetch' = nfetch + 1
              /\ IF ~ok
                 THEN /\ ret' = [ret EXCEPT !.exc = "AssertionError"]
                      /\ pc' = "idle"
                      /\ UNCHANGED nfast
                 ELSE /\ nfast' = IF LongReadTime(d, fps) THEN nfast
                                  ELSE nfast + 1
                      /\ IF LongReadTime(d, fps) \/ N + 1 = ex_max
                         THEN /\ ret' = [ret EXCEPT !.shape = "bool",
                                           !.val = HadBufferedFrames(N)]
                              /\ pc' = "idle"
                         ELSE UNCHANGED <<pc, ret>>
    /\ UNCHANGED <<kind, fps, ex_max>>
    /\ UNCHANGED <<fileVars, imageVars, appVars>>

\* exhaust_buffered_frames of a file or an image: return True
ExhaustNoop ==
    /\ kind \in {"video", "image"}
    /\ ret' = [NoRet EXCEPT !.op = "exhaust", !.shape = "bool", !.val = TRUE]
    /\ UNCHANGED <<kind, fileVars, imageVars, liveVars, appVars>>

\* ---------------------------------------------------------- make_video_reader

\* Identifiers are sequences of characters; "sup2" stands for the character
\* of a superscript two, which str.isnumeric() accepts and int() does not.
Whitespace == {" "}
Digits == {"0", "1"}
NumericChars == Digits \cup {"sup2"}

Idents ==
    { <<"0">>, <<"1">>, <<" ", "0">>, <<"0", " ">>, <<"1", "a">>, <<"sup2">>,
      <<"c", "a", "m">>, <<"C", "A", "M">>, <<" ", "c", "a", "m">>,
      <<"w", "e", "b", "c", "a", "m">>, <<"W", "e", "b", "C", "a", "m">>,
      <<"a">>, <<"a", " ">>, <<"r">>, <<>> }

\* What a file decodes as: by cv2.imread ("image"), by cv2.VideoCapture
\* ("video"), by both, or by neither ("other"); "absent": no such file.
Contents == {"absent", "other", "image", "video", "both"}
Paths == { <<"0">>, <<"a">>, <<"c", "a", "m">> }
FileSystems == [Paths -> Contents]

Lookup(fsys, path) == IF path \in DOMAIN fsys THEN fsys[path] ELSE "absent"

RECURSIVE LStrip(_)
LStrip(s) ==
    IF s # <<>> /\ Head(s) \in Whitespace THEN LStrip(Tail(s)) ELSE s

RECURSIVE RStrip(_)
RStrip(s) ==
    IF s # <<>> /\ s[Len(s)] \in Whitespace
    THEN RStrip(SubSeq(s, 1, Len(s) - 1))
    ELSE s

\* str.strip()
Strip(s) == RStrip(LStrip(s))

LowerChar(c) ==
    CASE c = "C" -> "c" [] c = "A" -> "a" [] c = "M" -> "m" [] c = "W" -> "w"
      [] OTHER -> c

\* str.lower()
Lower(s) == [i \in 1..Len(s) |-> LowerChar(s[i])]

\* str.isnumeric(): not empty, every character numeric
IsNumeric(s) == s # <<>> /\ \A i \in 1..Len(s) : s[i] \in NumericChars

\* whether int(s) returns (it raises ValueError otherwise)
IntParses(s) == s # <<>> /\ \A i \in 1..Len(s) : s[i] \in Digits

\*   video_source = str(video_source).strip()
\*   if video_source.lower() in ("webcam", "cam"): video_source = "0"
SourceName(id) ==
    IF Lower(Strip(id)) \in { <<"w", "e", "b", "c", "a", "m">>, <<"c", "a", "m">> }
    THEN <<"0">>
    ELSE Strip(id)

\* ImageFileReader.is_valid_image_file: the file exists and imread decodes it
IsValidImageFile(vs, fsys) == Lookup(fsys, vs) \in {"image", "both"}

\* VideoFileReader.is_valid_video_file: the file exists and opens as a video
IsValidVideoFile(vs, fsys) == Lookup(fsys, vs) \in {"video", "both"}

\* VideoStreamReader.__init__ of a live source: SystemExit unless the
\* capture opens.  A path of a file that does not open as a video does not
\* open here either; a device or url opens or not (sok).
StreamCtor(vs, by_index, fsys, sok) ==
    IF by_index /\ ~IntParses(vs) THEN "ValueError"
    ELSE IF by_index /\ sok THEN "none"
    ELSE IF ~by_index /\ sok /\ Lookup(fsys, vs) = "absent" THEN "none"
    ELSE "SystemExit"

\* make_video_reader with the video probe before the image probe.
MakeVideoReader_videofirst(id, fsys, sok) ==
    LET vs == SourceName(id)
    IN  IF IsValidVideoFile(vs, fsys)
        THEN [chose |-> "video", exc |-> "none", probes |-> <<"video">>]
        ELSE IF IsValidImageFile(vs, fsys)
        THEN [chose |-> "image", exc |-> "none",
              probes |-> <<"video", "image">>]
        ELSE IF IsNumeric(vs)
        THEN [chose |-> "webcam", exc |-> StreamCtor(vs, TRUE, fsys, sok),
              probes |-> <<"video", "image", "numeric">>]
        ELSE [chose |-> "rtsp", exc |-> StreamCtor(vs, FALSE, fsys, sok),
              probes |-> <<"video", "image", "numeric">>]

\* make_video_reader(video_source): the kind it chose, the probes it made
\* in their order, and the exception of the constructor it called, if any.
\* The constructor of an image or of a video file repeats the test of the
\* probe that chose it and does not fail after it.
MakeVideoReader(id, fsys, sok) ==
    LET vs == SourceName(id)
    IN  IF IsValidImageFile(vs, fsys)
        THEN [chose |-> "image", exc |-> "none", probes |-> <<"image">>]
        ELSE IF IsValidVideoFile(vs, fsys)
        THEN [chose |-> "video", exc |-> "none",
              probes |-> <<"image", "video">>]
        ELSE IF IsNumeric(vs)
        THEN [chose |-> "webcam", exc |-> StreamCtor(vs, TRUE, fsys, sok),
              probes |-> <<"image", "video", "numeric">>]
        ELSE [chose |-> "rtsp", exc |-> StreamCtor(vs, FALSE, fsys, sok),
              probes |-> <<"image", "video", "numeric">>]

\* Capture handles.  An event of the log is the start of a probe or of the
\* constructor ("begin"), a cv2.VideoCapture that opened ("open") or a
\* cap.release() ("release"); who owns the capture: "probe" or "source".
CapEvent(e, w) == [ev |-> e, who |-> w]

\* is_valid_image_file: osp.exists and cv2.imread, no capture is made.
ImageProbeLog(vs, fsys) == <<CapEvent("begin", "image_probe")>>

\* is_valid_video_file that does not release the capture it opened.
VideoProbeLog_leak(vs, fsys) ==
    <<CapEvent("begin", "video_probe")>>
    \o (IF Lookup(fsys, vs) \in {"video", "both"}
        THEN <<CapEvent("open", "probe")>>
        ELSE <<>>)

\* is_valid_video_file: nothing is opened for a path that does not exist;
\*   vcap = cv2.VideoCapture(video_source)
\*   is_valid = vcap.isOpened()
\*   vcap.release()
VideoProbeLog(vs, fsys) ==
    <<CapEvent("begin", "video_probe")>>
    \o (IF Lookup(fsys, vs) = "absent" THEN <<>>
        ELSE (IF Lookup(fsys, vs) \in {"video", "both"}
              THEN <<CapEvent("open", "probe")>>
              ELSE <<>>)
             \o <<CapEvent("release", "probe")>>)

\* The constructor make_video_reader calls: ImageFileReader loads with
\* cv2.imread; the others keep self.cap = cv2.VideoCapture(source), which
\* is open unless the constructor raised.
CtorLog(chose, exc) ==
    <<CapEvent("begin", "ctor")>>
    \o (IF chose # "image" /\ exc = "none"
        THEN <<CapEvent("open", "source")>>
        ELSE <<>>)

\* The captures opened and released by make_video_reader, in order.
CaptureLog(id, fsys, sok) ==
    LET vs == SourceName(id)
        r == MakeVideoReader(id, fsys, sok)
        Has(p) == \E i \in 1..Len(r.probes) : r.probes[i] = p
    IN  (IF Has("image") THEN ImageProbeLog(vs, fsys) ELSE <<>>)
        \o (IF Has("video") THEN VideoProbeLog(vs, fsys) ELSE <<>>)
        \o (IF Has("numeric") THEN <<CapEvent("begin", "numeric")>> ELSE <<>>)
        \o CtorLog(r.chose, r.exc)

\* The owners of the captures open after the events of log.
RECURSIVE HandlesOpen(_)
HandlesOpen(log) ==
    IF log = <<>> THEN {}
    ELSE LET before == HandlesOpen(SubSeq(log, 1, Len(log) - 1))
             e == log[Len(log)]
         IN  CASE e.ev = "open" -> before \cup {e.who}
               [] e.ev = "release" -> before \ {e.who}
               [] OTHER -> before

NoResolve ==
    [done |-> FALSE, chose |-> "none", exc |-> "none", probes |-> <<>>]

\* source_type, vread = make_video_reader(video_source)
Resolve ==
    /\ ~resolved.done
    /\ LET r == MakeVideoReader(ident, fs, stream_ok)
       IN  /\ resolved' = [done |-> TRUE, chose |-> r.chose, exc |-> r.exc,
                           probes |-> r.probes]
           /\ kind' = IF r.exc = "none" THEN r.chose ELSE "none"
    /\ cap_log' = CaptureLog(ident, fs, stream_ok)
    /\ UNCHANGED <<ret, ident, fs, stream_ok>>
    /\ UNCHANGED <<fileVars, imageVars, liveVars, barVars, mainVars, selVars>>

\* ---------------------------------------------------------------- PlaybackBar

\* Sizes of the frames handed to append_to_frame, and mouse coordinates.
MaxBarW == 4
FrameH == 2
\* bar_height = 80 of PlaybackBar.__init__
bar_height == 80
\* self._interact_y_offset = 0; the program never calls set_y_offset
interact_y_offset == 0

FrameWs == {1, MaxBarW}
MouseXs == {-1, 0, 1, MaxBarW - 1, MaxBarW}
MouseYs == {FrameH, FrameH + 1, FrameH + bar_height - 1, FrameH + bar_height}
MouseEvents == {"LBUTTONDOWN", "LBUTTONUP", "MOUSEMOVE"}

NoPbRet ==
    [op |-> "none", exc |-> "none", ev |-> "none", inband |-> FALSE,
     pressed0 |-> FALSE, enabled0 |-> FALSE, set_calls |-> 0,
     stacked |-> FALSE]
NoSeen == [any |-> FALSE, x |-> 0, w |-> 1, enabled |-> FALSE]

\* The call that begins: what the bar was when it was made.
PbCall(op) ==
    [NoPbRet EXCEPT !.op = op, !.pressed0 = pb_mouse_pressed,
                    !.enabled0 = pb_enable]

\* No playback bar has been made.
NoBar ==
    /\ pb_enable = FALSE
    /\ pb_mouse_pressed = FALSE
    /\ pb_x_norm = <<0, 1>>
    /\ pb_base_img = <<1, 1>>
    /\ pb_interact_y1y2 = <<-10, -10>>
    /\ pb_ret = NoPbRet
    /\ pb_seen = NoSeen

\* PlaybackBar.__init__: enabled when the reader has both
\* get_playback_position and set_playback_position, which only a video
\* file has (a live reader has the first, an image has neither).
IsControllableSource(k) == k = "video"

\* x / (bar_w - 1) without the clamp.
XNorm_noclamp(x, bar_w) == <<x, bar_w - 1>>

\* min(1.0, max(0.0, x / (bar_w - 1))) for bar_w > 1, as a fraction
XNorm(x, bar_w) ==
    IF x <= 0 THEN <<0, 1>>
    ELSE IF x >= bar_w - 1 THEN <<1, 1>>
    ELSE <<x, bar_w - 1>>

\* y1 < (y - self._interact_y_offset) < y2
IsInteractingY(y, y1y2) ==
    y1y2[1] < y - interact_y_offset /\ y - interact_y_offset < y1y2[2]

\* adjust_playback_on_drag: if self._mouse_pressed: ...
DragAdjusts(pressed, enabled) == pressed

\* PlaybackBar.enable(enable)
PbEnable ==
    /\ pb_ret.op # "none"
    /\ \E e \in BOOLEAN :
          /\ pb_enable' = e
          /\ pb_ret' = PbCall("enable")
    /\ UNCHANGED <<pb_mouse_pressed, pb_x_norm, pb_base_img, pb_interact_y1y2,
                   pb_seen>>
    /\ UNCHANGED <<kind, ret, fileVars, imageVars, liveVars>>
    /\ UNCHANGED <<factoryVars, mainVars, selVars>>

\* PlaybackBar.__call__(event, x, y, flags, param): the mouse callback
PbMouse ==
    /\ pb_ret.op # "none"
    /\ \E ev \in MouseEvents, x \in MouseXs, y \in MouseYs :
          LET bar_w == pb_base_img[2]
              call == [PbCall("mouse") EXCEPT !.ev = ev,
                          !.inband = IsInteractingY(y, pb_interact_y1y2)]
          IN  /\ pb_seen' = [any |-> TRUE, x |-> x, w |-> bar_w,
                             enabled |-> pb_enable]
              /\ IF ~pb_enable
                 THEN /\ pb_ret' = call
                      /\ UNCHANGED <<pb_x_norm, pb_mouse_pressed>>
                 ELSE IF bar_w - 1 = 0
                 THEN /\ pb_ret' = [call EXCEPT !.exc = "ZeroDivisionError"]
                      /\ UNCHANGED <<pb_x_norm, pb_mouse_pressed>>
                 ELSE /\ pb_ret' = call
                      /\ pb_x_norm' = XNorm(x, bar_w)
                      /\ pb_mouse_pressed' =
                            IF ev = "LBUTTONUP" THEN FALSE
                            ELSE IF call.inband /\ ev = "LBUTTONDOWN" THEN TRUE
                            ELSE pb_mouse_pressed
    /\ UNCHANGED <<pb_enable, pb_base_img, pb_interact_y1y2>>
    /\ UNCHANGED <<kind, ret, fileVars, imageVars, liveVars>>
    /\ UNCHANGED <<factoryVars, mainVars, selVars>>

\* PlaybackBar.append_to_frame(frame), draw_bar included: the base image
\* is remade when the frame's width differs, then the reader is asked for
\* its position, which an image reader cannot give.
PbAppendToFrame ==
    /\ pb_ret.op # "none"
    /\ \E frame_w \in FrameWs :
          LET resized == IF frame_w # pb_base_img[2]
                         THEN <<bar_height, frame_w>>
                         ELSE pb_base_img
          IN  IF ~pb_enable
              THEN /\ pb_ret' = PbCall("append")
                   /\ UNCHANGED <<pb_base_img, pb_interact_y1y2>>
              ELSE IF kind = "image"
              THEN /\ pb_ret' = [PbCall("append") EXCEPT
                                    !.exc = "AttributeError"]
                   /\ pb_base_img' = resized
                   /\ UNCHANGED pb_interact_y1y2
              ELSE IF kind = "video" /\ total_frames = 0
              THEN /\ pb_ret' = [PbCall("append") EXCEPT
                                    !.exc = "ZeroDivisionError"]
                   /\ pb_base_img' = resized
                   /\ UNCHANGED pb_interact_y1y2
              ELSE /\ pb_ret' = [PbCall("append") EXCEPT !.stacked = TRUE]
                   /\ pb_base_img' = resized
                   /\ pb_interact_y1y2' = <<FrameH, FrameH + resized[1]>>
    /\ UNCHANGED <<pb_enable, pb_mouse_pressed, pb_x_norm, pb_seen>>
    /\ UNCHANGED <<kind, ret, fileVars, imageVars, liveVars>>
    /\ UNCHANGED <<factoryVars, mainVars, selVars>>

\* PlaybackBar.adjust_playback_on_drag(): the tick.  On a video file
\* set_playback_position(self._x_norm) seeks; the other readers have no
\* such method.
PbAdjust ==
    /\ pb_ret.op # "none"
    /\ IF ~DragAdjusts(pb_mouse_pressed, pb_enable)
       THEN /\ pb_ret' = PbCall("tick")
            /\ UNCHANGED <<ret, cap_pos, seq>>
       ELSE IF kind # "video"
       THEN /\ pb_ret' = [PbCall("tick") EXCEPT !.exc = "AttributeError"]
            /\ UNCHANGED <<ret, cap_pos, seq>>
       ELSE /\ pb_ret' = [PbCall("tick") EXCEPT !.set_calls = 1]
            /\ cap_pos' = SeekTarget(total_frames, pb_x_norm[1], pb_x_norm[2])
            /\ ret' = [NoRet EXCEPT !.op = "set", !.shape = "self",
                         !.pos0 = cap_pos, !.a = pb_x_norm[1],
                         !.b = pb_x_norm[2]]
            /\ seq' = [src |-> "set", a |-> pb_x_norm[1], b |-> pb_x_norm[2],
                       n |-> 0]
    /\ UNCHANGED <<pb_enable, pb_mouse_pressed, pb_x_norm, pb_base_img,
                   pb_interact_y1y2, pb_seen>>
    /\ UNCHANGED <<kind, total_frames, num_frames, cap_alive>>
    /\ UNCHANGED <<imageVars, liveVars, factoryVars, mainVars, selVars>>

\* ------------------------------------------------------------ main script

NoEnd == [cause |-> "none", in_try |-> FALSE]

\* The script is not running.
NoMain ==
    /\ main_pc = "none"
    /\ releases = 0
    /\ main_end = NoEnd

\* ------------------------------------------- SelectionBar, ArucoDetector

\* size_select_bar = SelectionBar("4x4", "5x5", "6x6", "7x7", default="4x4")
\* maxids_select_bar = SelectionBar("50", "100", "250", "1000",
\*                                  default="1000", ...)
Bars == {"size", "maxids"}
SizeTitles == <<"4x4", "5x5", "6x6", "7x7">>
MaxIdTitles == <<"50", "100", "250", "1000">>
Titles(b) == IF b = "size" THEN SizeTitles ELSE MaxIdTitles
DefaultTitle(b) == IF b = "size" THEN "4x4" ELSE "1000"

\* bar_height = 60 of SelectionBar.__init__
select_bar_height == 60
\* self._interact_y_offset = 0; the program never calls set_y_offset
select_y_offset == 0

\* The largest number of titles a selection bar is taken to have.
MaxTitles == 5

\* y of a mouse event: on the last row of the frame, in the size bar, on
\* its last row's successor (the first row of the max-id bar), below it.
SelYs ==
    {FrameH, FrameH + 1, FrameH + select_bar_height,
     FrameH + select_bar_height + 1}

\* The keys of ArucoDetector._size_id_detectors_dict, <<size, max id>>.
DetectorKeys ==
    {"4x4", "5x5", "6x6", "7x7"} \X {"50", "100", "250", "1000"}

\* list.index(default)
TitleIndex(titles, t) == (CHOOSE i \in 1..Len(titles) : titles[i] = t) - 1

\* SelectionBar.__init__
NewSelectionBar(b) ==
    [idx_select |-> TitleIndex(Titles(b), DefaultTitle(b)),
     enable |-> TRUE,
     base_w |-> 1,
     made |-> FALSE,
     y1y2 |-> <<-10, -10>>]

NoSelRet ==
    [op |-> "none", bar |-> "none", exc |-> "none", ev |-> "none",
     inband |-> FALSE, inx |-> FALSE, enabled0 |-> FALSE, idx0 |-> 0]

\* The call that begins on bar b.
SelCall(op, b) ==
    [NoSelRet EXCEPT !.op = op, !.bar = b, !.enabled0 = sel[b].enable,
                     !.idx0 = sel[b].idx_select]

\* Both bars and the detector as constructed, nothing called on them yet.
NewSel ==
    /\ sel = [b \in Bars |-> NewSelectionBar(b)]
    /\ sel_ret = NoSelRet
    /\ det_select = <<"none", "none">>
    /\ det_ret = "none"

\* is_interacting_x = 0 < x < bar_w
IsInteractingX(x, bar_w) == 0 < x /\ x < bar_w

\* int(x_norm * num_titles) without the clamp to the last title.
SelectIndex_nomin(x, bar_w, num_titles) == (x * num_titles) \div (bar_w - 1)

\*   x_norm = x / (bar_w - 1)
\*   idx_select = int(x_norm * num_titles)
\*   idx_select = min(num_titles - 1, idx_select)
\*   idx_select = max(0, idx_select)
\* for x >= 0 and bar_w > 1.
SelectIndex(x, bar_w, num_titles) ==
    LET idx == (x * num_titles) \div (bar_w - 1)
        low == Min(num_titles - 1, idx)
    IN  IF low < 0 THEN 0 ELSE low

\* SelectionBar.__call__(event, x, y, flags, param) of one of the bars
SelMouse ==
    /\ \E b \in Bars, ev \in MouseEvents, x \in MouseXs, y \in SelYs :
          LET bar == sel[b]
              inband == bar.y1y2[1] < y - select_y_offset
                            /\ y - select_y_offset < bar.y1y2[2]
              inx == IsInteractingX(x, bar.base_w)
              call == [SelCall("mouse", b) EXCEPT !.ev = ev,
                          !.inband = inband, !.inx = inx]
          IN  IF ~bar.enable \/ ev # "LBUTTONDOWN" \/ ~inband \/ ~inx
              THEN sel_ret' = call /\ UNCHANGED sel
              ELSE IF bar.base_w - 1 = 0
              THEN /\ sel_ret' = [call EXCEPT !.exc = "ZeroDivisionError"]
                   /\ UNCHANGED sel
              ELSE /\ sel_ret' = call
                   /\ sel' = [sel EXCEPT ![b].idx_select =
                                 SelectIndex(x, bar.base_w, Len(Titles(b)))]
    /\ UNCHANGED <<kind, ret, fileVars, imageVars, liveVars>>
    /\ UNCHANGED <<factoryVars, barVars, mainVars, det_select, det_ret>>

\* SelectionBar.enable(enable)
SelEnable ==
    /\ \E b \in Bars, e \in BOOLEAN :
          /\ sel' = [sel EXCEPT ![b].enable = e]
          /\ sel_ret' = SelCall("enable", b)
    /\ UNCHANGED <<kind, ret, fileVars, imageVars, liveVars>>
    /\ UNCHANGED <<factoryVars, barVars, mainVars, det_select, det_ret>>

\* SelectionBar.append_to_frame(display_frame): the size bar goes under the
\* frame, the max-id bar under the size bar.  The base image is remade
\* when the width differs; draw_selection needs the _title_font_lut that
\* only _make_base_image sets.
SelAppendToFrame ==
    /\ \E b \in Bars, disp_w \in FrameWs :
          LET bar == sel[b]
              disp_h == IF b = "size" THEN FrameH
                        ELSE FrameH + select_bar_height
              remade == disp_w # bar.base_w
          IN  IF ~remade /\ ~bar.made
              THEN /\ sel_ret' = [SelCall("append", b) EXCEPT
                                     !.exc = "AttributeError"]
                   /\ UNCHANGED sel
              ELSE /\ sel_ret' = SelCall("append", b)
                   /\ sel' = [sel EXCEPT
                                ![b].base_w = disp_w,
                                ![b].made = TRUE,
                                ![b].y1y2 =
                                    <<disp_h, disp_h + select_bar_height>>]
    /\ UNCHANGED <<kind, ret, fileVars, imageVars, liveVars>>
    /\ UNCHANGED <<factoryVars, barVars, mainVars, det_select, det_ret>>

\* SelectionBar.read(): self._titles[self._idx_select]
SelRead(b) ==
    IF sel[b].idx_select \in 0..(Len(Titles(b)) - 1)
    THEN Titles(b)[sel[b].idx_select + 1]
    ELSE "IndexError"

\* ArucoDetector.process_frame: the lookup
\*   self._size_id_detectors_dict[self._size_select][self._maxid_select]
DetectorLookup(size_select, maxid_select) ==
    IF <<size_select, maxid_select>> \in DetectorKeys THEN "ok"
    ELSE "KeyError"

\* The loop of the script reads both bars and runs the detector:
\*   aru_marker_size = size_select_bar.read()
\*   aru_max_ids = maxids_select_bar.read()
\*   aruco_detector.select_detector(aru_marker_size, aru_max_ids)
\*   aru_results = aruco_detector.process_frame(display_frame)
Detect ==
    /\ det_select' = <<SelRead("size"), SelRead("maxids")>>
    /\ det_ret' = DetectorLookup(SelRead("size"), SelRead("maxids"))
    /\ UNCHANGED <<kind, ret, fileVars, imageVars, liveVars>>
    /\ UNCHANGED <<factoryVars, barVars, mainVars, sel, sel_ret>>

\* An exception leaves the script.  Lines 83 to 104 are outside the try
\* statement: the script ends there; from line 105 on the finally clause
\* runs first.
MainRaise(cause, in_try) ==
    /\ main_pc' = IF in_try THEN "finally" ELSE "done"
    /\ main_end' = [cause |-> cause, in_try |-> in_try]

\* history.save(video_source), which swallows its errors;
\* playback_bar = PlaybackBar(vread): get_playback_position() then
\* set_playback_position(pos) on a video file, ZeroDivisionError when its
\* metadata reports no frames; playback_bar.enable(source_type == "video")
MainPlaybackBar ==
    /\ main_pc = "bar"
    /\ IF kind = "video" /\ total_frames = 0
       THEN /\ MainRaise("ZeroDivisionError", FALSE)
            /\ UNCHANGED <<cap_pos, barVars>>
       ELSE /\ main_pc' = "window"
            /\ UNCHANGED main_end
            /\ cap_pos' =
                  IF kind = "video"
                  THEN SeekTarget(total_frames,
                                  PlaybackFraction(cap_pos, total_frames),
                                  total_frames)
                  ELSE cap_pos
            /\ pb_enable' = (kind = "video")
            /\ pb_ret' = [NoPbRet EXCEPT !.op = "enable",
                             !.enabled0 = IsControllableSource(kind)]
            /\ UNCHANGED <<pb_mouse_pressed, pb_x_norm, pb_base_img,
                           pb_interact_y1y2, pb_seen>>
    /\ UNCHANGED <<kind, ret, total_frames, num_frames, cap_alive, seq>>
    /\ UNCHANGED <<imageVars, liveVars, factoryVars, releases, selVars>>

\* window = DisplayWindow(...); window.add_callbacks(...): cv2.namedWindow
\* raises cv2.error where no display can be opened.
MainWindow ==
    /\ main_pc = "window"
    /\ \E display_ok \in BOOLEAN :
          IF display_ok
          THEN main_pc' = "iter" /\ UNCHANGED main_end
          ELSE MainRaise("cv2.error", FALSE)
    /\ UNCHANGED <<kind, ret, fileVars, imageVars, liveVars>>
    /\ UNCHANGED <<factoryVars, barVars, releases, selVars>>

\* try: for frame in vread: -- __iter__, which on a live source calls
\* exhaust_buffered_frames(): ZeroDivisionError with no fps reported,
\* AssertionError when a grab fails.
MainIter ==
    /\ main_pc = "iter"
    /\ IF ~IsLive
       THEN main_pc' = "advance" /\ UNCHANGED main_end
       ELSE IF fps = 0
       THEN MainRaise("ZeroDivisionError", TRUE)
       ELSE \E grabs_ok \in BOOLEAN :
               IF grabs_ok
               THEN main_pc' = "advance" /\ UNCHANGED main_end
               ELSE MainRaise("AssertionError", TRUE)
    /\ UNCHANGED <<kind, ret, fileVars, imageVars, liveVars>>
    /\ UNCHANGED <<factoryVars, barVars, releases, selVars>>

\* __next__ of a live source, the outcomes of its two read() calls given.
LiveAdvance(read1_ok, read2_ok) ==
    LET s1 == NextStep(1, read1_ok)
        s2 == NextStep(2, read2_ok)
    IN  IF s1 = "return" \/ (s1 = "retry" /\ s2 = "return")
        THEN "none"
        ELSE "IOError"

\* for frame in vread: -- __next__ of the reader
MainAdvance ==
    /\ main_pc = "advance"
    /\ LET r == FileAdvance(cap_pos, num_frames, cap_alive)
       IN  \E read1_ok \in BOOLEAN, read2_ok \in BOOLEAN :
             LET exc == IF kind = "video" THEN r.exc
                        ELSE IF kind = "image" THEN "none"
                        ELSE LiveAdvance(read1_ok, read2_ok)
             IN  /\ cap_pos' = IF kind = "video" THEN r.pos ELSE cap_pos
                 /\ IF exc = "none"
                    THEN main_pc' = "body" /\ UNCHANGED main_end
                    ELSE MainRaise(exc, TRUE)
    /\ UNCHANGED <<kind, ret, total_frames, num_frames, cap_alive, seq>>
    /\ UNCHANGED <<imageVars, liveVars, factoryVars, barVars, releases>>
    /\ UNCHANGED selVars

\* The body of the loop, lines 108 to 136: detection and drawing, which
\* may raise; window.imshow and a quit key (q or esc), which breaks.
MainBody ==
    /\ main_pc = "body"
    /\ \E o \in {"continue", "quit", "raise"} :
          CASE o = "continue" -> main_pc' = "advance" /\ UNCHANGED main_end
            [] o = "quit" ->
                 /\ main_pc' = "finally"
                 /\ main_end' = [cause |-> "quit", in_try |-> TRUE]
            [] OTHER -> MainRaise("Exception", TRUE)
    /\ UNCHANGED <<kind, ret, fileVars, imageVars, liveVars>>
    /\ UNCHANGED <<factoryVars, barVars, releases, selVars>>

\* Ctrl+C: KeyboardInterrupt, caught by the except clause of the try
\* statement and by nothing before it.
MainInterrupt ==
    /\ main_pc \in {"bar", "window", "iter", "advance", "body"}
    /\ MainRaise("KeyboardInterrupt",
                 main_pc \in {"iter", "advance", "body"})
    /\ UNCHANGED <<kind, ret, fileVars, imageVars, liveVars>>
    /\ UNCHANGED <<factoryVars, barVars, releases, selVars>>

\* finally: vread.release(); cv2.destroyAllWindows()
MainFinally ==
    /\ main_pc = "finally"
    /\ releases' = releases + 1
    /\ main_pc' = "done"
    /\ cap_alive' = (kind = "image" /\ cap_alive)
    /\ UNCHANGED <<kind, ret, total_frames, num_frames, cap_pos, seq>>
    /\ UNCHANGED <<imageVars, liveVars, factoryVars, barVars, main_end>>
    /\ UNCHANGED selVars

\* -------------------------------------------------------- specification

NoFs == [p \in {} |-> "absent"]

\* A constructed reader of any kind, no call made yet.
InitReader ==
    /\ kind \in {"image", "video", "webcam", "rtsp"}
    /\ ret = NoRet
    /\ \E sh \in (IF kind = "video" THEN FileShapes ELSE {<<0, 1>>}) :
          /\ total_frames = sh[1]
          /\ num_frames = sh[2]
    /\ cap_pos = 0
    /\ cap_alive = TRUE
    /\ seq = IF kind = "video"
             THEN [src |-> "init", a |-> 0, b |-> 1, n |-> 0]
             ELSE NoSeq
    /\ img0 \in (IF kind = "image" THEN Pixels ELSE {0})
    /\ heap = [r \in Refs |-> img0]
    /\ frame_ref = "none"
    /\ annotated = "never"
    /\ fps \in (IF IsLive THEN FpsSet ELSE {0})
    /\ pc = "idle"
    /\ fetch = NoFetch
    /\ nfetch = 0
    /\ nfast = 0
    /\ ex_max = 0
    /\ ex_N = -1
    /\ ident = <<>>
    /\ fs = NoFs
    /\ stream_ok = FALSE
    /\ resolved = [NoResolve EXCEPT !.done = TRUE, !.chose = kind]
    /\ cap_log = <<>>

Init == InitReader /\ NoBar /\ NoMain /\ NewSel

Next ==
    \/ FileNext
    \/ FileRead
    \/ SetPlaybackPosition
    \/ GetPlaybackPosition
    \/ Disconnect
    \/ ImageRead
    \/ ImageNext
    \/ Annotate
    \/ LiveCallNext
    \/ LiveCallRead
    \/ LiveGrab
    \/ LiveCallExhaust
    \/ ExhaustGrab
    \/ ExhaustNoop

Spec == Init /\ [][Next]_vars

\* No reader has been constructed.
NoReader ==
    /\ kind = "none"
    /\ ret = NoRet
    /\ total_frames = 0
    /\ num_frames = 1
    /\ cap_pos = 0
    /\ cap_alive = TRUE
    /\ seq = NoSeq
    /\ img0 = 0
    /\ heap = [r \in Refs |-> 0]
    /\ frame_ref = "none"
    /\ annotated = "never"
    /\ fps = 0
    /\ pc = "idle"
    /\ fetch = NoFetch
    /\ nfetch = 0
    /\ nfast = 0
    /\ ex_max = 0
    /\ ex_N = -1

\* An identifier, a file system and a device or network, before
\* make_video_reader is called; no reader exists yet.
InitResolve ==
    /\ ident \in Idents
    /\ fs \in FileSystems
    /\ stream_ok \in BOOLEAN
    /\ resolved = NoResolve
    /\ cap_log = <<>>
    /\ NoBar /\ NoMain /\ NewSel
    /\ NoReader

NextResolve == Resolve

SpecResolve == InitResolve /\ [][NextResolve]_vars

\* playback_bar = PlaybackBar(vread) over a constructed reader of any kind.
\* A video file whose metadata reports no frames has no bar: the
\* constructor's get_playback_position() raised ZeroDivisionError.
InitBar ==
    /\ kind \in {"image", "video", "webcam", "rtsp"}
    /\ ret = NoRet
    /\ total_frames \in (IF kind = "video" THEN 1..MaxFrames ELSE {0})
    /\ num_frames = (IF kind = "video" THEN total_frames ELSE 1)
    /\ cap_pos = 0
    /\ cap_alive = TRUE
    /\ seq = NoSeq
    /\ img0 = 0
    /\ heap = [r \in Refs |-> 0]
    /\ frame_ref = "none"
    /\ annotated = "never"
    /\ fps = 0
    /\ pc = "idle"
    /\ fetch = NoFetch
    /\ nfetch = 0
    /\ nfast = 0
    /\ ex_max = 0
    /\ ex_N = -1
    /\ ident = <<>>
    /\ fs = NoFs
    /\ stream_ok = FALSE
    /\ resolved = [NoResolve EXCEPT !.done = TRUE, !.chose = kind]
    /\ cap_log = <<>>
    /\ pb_enable = IsControllableSource(kind)
    /\ pb_mouse_pressed = FALSE
    /\ pb_x_norm = <<0, 1>>
    /\ pb_base_img = <<1, 1>>
    /\ pb_interact_y1y2 = <<-10, -10>>
    /\ pb_ret = [NoPbRet EXCEPT !.op = "init"]
    /\ pb_seen = NoSeen
    /\ NoMain /\ NewSel

NextBar ==
    \/ PbEnable
    \/ PbMouse
    \/ PbAppendToFrame
    \/ PbAdjust

SpecBar == InitBar /\ [][NextBar]_vars

\* The script after source_type, vread = make_video_reader(video_source)
\* returned a reader.
InitMain ==
    /\ InitReader /\ NoBar /\ NewSel
    /\ main_pc = "bar"
    /\ releases = 0
    /\ main_end = NoEnd

NextMain ==
    \/ MainPlaybackBar
    \/ MainWindow
    \/ MainIter
    \/ MainAdvance
    \/ MainBody
    \/ MainInterrupt
    \/ MainFinally

SpecMain == InitMain /\ [][NextMain]_vars

\* The two selection bars and the detector of the script, as constructed
\* at lines 74 to 78.
InitSel ==
    /\ NoReader /\ NoBar /\ NoMain /\ NewSel
    /\ ident = <<>>
    /\ fs = NoFs
    /\ stream_ok = FALSE
    /\ resolved = NoResolve
    /\ cap_log = <<>>

NextSel ==
    \/ SelMouse
    \/ SelEnable
    \/ SelAppendToFrame
    \/ Detect

SpecSel == InitSel /\ [][NextSel]_vars

\* ================================================================ claims

\* A call of the live reader has returned or raised.
Finished(op) == pc = "idle" /\ ret.op = op

\* ---------------------------------------------------------------------
\* C1.  A video file of N >= 1 frames that reads frames 0..N-1 and fails at
\* the end: the k-th advance() from construction returns frame k-1 with one
\* read; the (N+1)-th finds the end, seeks to frame 0, reads once more and
\* returns frame 0, and no error reaches the caller.  Every advance() of a
\* file makes one read, or two reads with one seek between them; it raises
\* IOError only after the second read failed.
C1_LoopBackOnce ==
    (kind = "video" /\ ret.op = "next") =>
        /\ ret.reads \in 1..2
        /\ ret.seeks = ret.reads - 1
        /\ (ret.exc = "IOError") <=> ~ret.ok
        /\ ret.exc = "IOError" => (ret.reads = 2 /\ ~cap_alive)
        /\ (cap_alive /\ seq.src = "init" /\ seq.n <= num_frames) =>
              (ret.exc = "none" /\ ret.frame = seq.n - 1 /\ ret.reads = 1)
        /\ (cap_alive /\ seq.src = "init" /\ seq.n = num_frames + 1) =>
              (ret.exc = "none" /\ ret.frame = 0 /\ ret.reads = 2)

\* The (N+1)-th advance() of a file of N >= 2 frames has returned frame 0.
C1_Witness ==
    /\ kind = "video" /\ cap_alive /\ num_frames >= 2
    /\ seq.src = "init" /\ seq.n = num_frames + 1
    /\ ret.op = "next" /\ ret.frame = 0 /\ ret.seeks = 1

C3_Original ==
    IsLive =>
        /\ (pc = "read" /\ nfetch > 0) =>
              (fetch.ok /\ fetch.d < 10 * min_read_time_ms)
        /\ (pc = "idle" /\ ret.op \in {"read", "next"}) =>
              /\ ~fetch.ok \/ fetch.d >= 10 * min_read_time_ms
              /\ ret.ok => ret.frame = fetch.id
              /\ ~fetch.ok => (~ret.ok /\ ret.frame = -1)

\* What the loop of read() does as coded: it goes on after a successful
\* fetch of under min_read_time_ms + 1 ms and stops at a fetch of at least
\* that, or at a failed one.
ReadLoopAsCoded ==
    IsLive =>
        /\ (pc = "read" /\ nfetch > 0) =>
              (fetch.ok /\ fetch.d < 10 * (min_read_time_ms + 1))
        /\ (pc = "idle" /\ ret.op \in {"read", "next"}) =>
              /\ ~fetch.ok \/ fetch.d >= 10 * (min_read_time_ms + 1)
              /\ ret.ok => ret.frame = fetch.id
              /\ ~fetch.ok => (~ret.ok /\ ret.frame = -1)

\* ---------------------------------------------------------------------
\* C4.  exhaust_buffered_frames on a live source with a backlog of k frames
\* (k fast fetches, then a slow one): whenever the call sees the slow fetch
\* it has discarded the k fast ones before it; and a call that meets no
\* fast fetch (a backlog of 0) returns False, whatever max_frames_to_exhaust.
\* Fast and slow are as the code measures them.
C4_Original ==
    (IsLive /\ Finished("exhaust") /\ fps > 0 /\ ret.exc # "AssertionError") =>
        /\ nfast = 0 => (ret.exc = "none" /\ ret.shape = "bool" /\ ~ret.val)
        /\ nfetch > nfast => (nfetch - 1 = nfast /\ LongReadTime(fetch.d, fps))

\* ---------------------------------------------------------------------
\* C5.  exhaust_buffered_frames(m) on a live source fetches until the first
\* fetch measured at or over round(0.85 * 1000 / fps) ms, makes at most m
\* fetches, and returns True exactly when one of its fetches was under the
\* threshold, for every m >= 0.
C5_Original ==
    (IsLive /\ Finished("exhaust") /\ fps > 0 /\ ret.exc # "AssertionError") =>
        /\ ret.exc = "none" /\ ret.shape = "bool"
        /\ nfetch <= ex_max
        /\ nfetch < ex_max => LongReadTime(fetch.d, fps)
        /\ nfast >= nfetch - 1
        /\ ret.val <=> nfast > 0

\* Where the code agrees with C4 and C5: from max_frames_to_exhaust = 1 on
\* for C4, from 2 on for C5.
ExhaustAsCoded ==
    /\ ex_max >= 1 => C4_Original
    /\ ex_max >= 2 => C5_Original

\* ---------------------------------------------------------------------
\* The playback position min(1.0, pos / total_frames), as its numerator
\* over total_frames (> 0).
PosNow == PlaybackFraction(cap_pos, total_frames)
PosBefore == PlaybackFraction(ret.pos0, total_frames)

\* C6 as stated (for a file whose metadata reports a frame, so that the
\* position exists).  The position is in [0, 1], and no advance() or
\* read() lowers it, the loop-back of advance() included.
C6_Original ==
    (kind = "video" /\ total_frames >= 1) =>
        /\ 0 <= PosNow /\ PosNow <= total_frames
        /\ ret.op \in {"next", "read"} => PosBefore <= PosNow

\* C6 as amended.  Whenever get_playback_position() returns a value (it
\* raises ZeroDivisionError when the metadata reports 0 frames) the value
\* is in [0, 1]; no read() lowers it, and no advance() that returns the
\* next frame without seeking lowers it.  The loop-back of advance() does:
\* its seek to frame 0 takes the position from the end to 1 / total_frames,
\* or to 0 when the read after the seek fails.
C6_PositionInRangeMonotoneWithoutLoopBack ==
    (kind = "video" /\ total_frames >= 1) =>
        /\ 0 <= PosNow /\ PosNow <= total_frames
        /\ (ret.op \in {"next", "read"} /\ ret.seeks = 0) => PosBefore <= PosNow
        /\ (ret.op = "next" /\ ret.seeks = 1) =>
              cap_pos = (IF ret.ok THEN 1 ELSE 0)

\* An advance() past the frame count of the metadata: the clamp holds the
\* position at 1.0.
C6_Witness ==
    /\ kind = "video" /\ total_frames >= 1
    /\ ret.op = "next" /\ ret.seeks = 0 /\ ret.ok
    /\ ret.pos0 >= total_frames

\* ---------------------------------------------------------------------
\* C7.  With total_frames >= 1, right after set_playback_position(a / b)
\* the capture is at frame round(total_frames * a / b) and the position
\* read back differs from a / b by at most 1 / total_frames
\* (both sides multiplied by total_frames * b).
C7_SetThenGetWithinOneFrame ==
    (kind = "video" /\ total_frames >= 1 /\ ret.op = "set") =>
        /\ cap_pos = PyRound(total_frames * ret.a, ret.b)
        /\ Abs(PosNow * ret.b - ret.a * total_frames) <= ret.b

\* A seek whose position read back is not the position asked for.
C7_Witness ==
    /\ kind = "video" /\ total_frames >= 2 /\ ret.op = "set"
    /\ PosNow * ret.b # ret.a * total_frames

\* ---------------------------------------------------------------------
\* C8.  After set_playback_position(a / b) on a file, the j-th consecutive
\* advance() returns the frame of index round(total_frames * a / b) + j - 1,
\* as long as that index is a frame of the file; with 100 frames and 1/2
\* the third advance() returns frame 52.
C8_AdvanceContinuesFromSeek ==
    (kind = "video" /\ cap_alive /\ ret.op = "next" /\ seq.src = "set") =>
        LET start == PyRound(total_frames * seq.a, seq.b)
        IN  /\ start + seq.n <= num_frames =>
                  (ret.exc = "none" /\ ret.frame = start + seq.n - 1)
            /\ (total_frames = 100 /\ num_frames = 100 /\ 2 * seq.a = seq.b
                  /\ seq.n \in 1..3) =>
                  ret.frame = 49 + seq.n

\* The third advance() after a seek to 1/2 of a 100-frame file gave frame 52.
C8_Witness ==
    /\ kind = "video" /\ cap_alive /\ total_frames = 100 /\ num_frames = 100
    /\ seq.src = "set" /\ 2 * seq.a = seq.b /\ seq.n = 3
    /\ ret.op = "next" /\ ret.frame = 52

\* ---------------------------------------------------------------------
\* C9.  Every advance() of a still-image source returns the content loaded
\* at construction, in an object of its own: whatever the caller has drawn
\* on the frames it received, the stored image is unchanged.
C9_ImageAlwaysTheSame ==
    kind = "image" =>
        /\ heap["image"] = img0
        /\ ret.op \in {"next", "read"} =>
              (ret.frame = img0 /\ frame_ref = "copy" /\ ret.exc = "none")

\* An advance() made after the caller modified an earlier frame.
C9_Witness ==
    /\ kind = "image" /\ annotated = "reread"
    /\ ret.op = "next" /\ ret.frame = img0

\* ---------------------------------------------------------------------
\* What the probe order image, video file, numeric, stream gives for a
\* source name vs: the kind, and the probes made up to the first match.
KindByProbeOrder(vs) ==
    CASE Lookup(fs, vs) \in {"image", "both"} -> "image"
      [] Lookup(fs, vs) \in {"video", "both"} -> "video"
      [] IsNumeric(vs) -> "webcam"
      [] OTHER -> "rtsp"

ProbesUpTo(k) ==
    CASE k = "image" -> <<"image">>
      [] k = "video" -> <<"image", "video">>
      [] OTHER -> <<"image", "video", "numeric">>

\* C10 as stated, for the calls that return, the identifier taken without
\* the spaces around it: the kind returned is the one the probe order gives
\* for the identifier itself.
C10_Original ==
    (resolved.done /\ resolved.exc = "none") =>
        /\ kind = KindByProbeOrder(Strip(ident))
        /\ resolved.probes = ProbesUpTo(kind)

\* C10 as amended.  make_video_reader first strips the identifier and
\* replaces "webcam" or "cam" (in any case) by "0"; the probe order image,
\* video file, numeric, stream is applied to that source name, the first
\* match wins and no later probe is made.  It returns exactly one kind
\* when the constructor it calls succeeds, and none when the constructor
\* of a webcam or stream raises (the source does not open: SystemExit;
\* int() rejects a numeric character: ValueError).
C10_ProbeOrderOnSourceName ==
    resolved.done =>
        LET k == KindByProbeOrder(SourceName(ident))
        IN  /\ resolved.chose = k
            /\ resolved.probes = ProbesUpTo(k)
            /\ kind = (IF resolved.exc = "none" THEN k ELSE "none")
            /\ resolved.exc # "none" => k \in {"webcam", "rtsp"}

\* A numeric name of a file that decodes both as an image and as a video:
\* every probe would match, and the image probe won.
C10_Witness ==
    /\ resolved.done /\ kind = "image"
    /\ IsNumeric(SourceName(ident))
    /\ Lookup(fs, SourceName(ident)) = "both"

\* ---------------------------------------------------------------------
\* C11 as stated.  Resolving "0" gives a webcam, also when a file named 0
\* with image content exists.
C11_Original ==
    (resolved.done /\ ident = <<"0">> /\ Lookup(fs, <<"0">>) = "image") =>
        resolved.chose = "webcam"

\* What the code does with "0": a webcam exactly when no file named 0
\* decodes as an image or opens as a video.
ZeroAsCoded ==
    (resolved.done /\ ident = <<"0">>) =>
        (resolved.chose = "webcam"
            <=> Lookup(fs, <<"0">>) \in {"absent", "other"})

\* ---------------------------------------------------------------------
\* C12.  No probe of make_video_reader leaves a capture open: at the start
\* of every probe and of the constructor no capture is open, and when
\* make_video_reader is over the only capture open is the one of the source
\* it returned (none for an image, none when the constructor raised).
C12_NoProbeLeavesHandle ==
    resolved.done =>
        /\ \A i \in 1..Len(cap_log) :
              cap_log[i].ev = "begin" =>
                  HandlesOpen(SubSeq(cap_log, 1, i - 1)) = {}
        /\ HandlesOpen(cap_log) =
              (IF kind \in {"video", "webcam", "rtsp"} THEN {"source"} ELSE {})

\* The video probe opened a capture on the file and the constructor opened
\* the source's own afterwards.
C12_Witness ==
    /\ resolved.done /\ kind = "video"
    /\ \E i \in 1..Len(cap_log) : cap_log[i] = CapEvent("open", "probe")
    /\ cap_log[Len(cap_log)] = CapEvent("open", "source")

\* ---------------------------------------------------------------------
\* C16 as stated.  A constructed file source has a positive total frame
\* count, so that get_playback_position() on it never divides by zero.
C16_Original ==
    (kind = "video" /\ ret.op = "get") =>
        (total_frames > 0 /\ ret.exc # "ZeroDivisionError")

\* ---------------------------------------------------------------------
\* C17 as stated.  read() of every source variant returns a pair
\* (success, frame) and does not raise.
C17_Original ==
    (ret.op = "read" /\ pc = "idle") =>
        (ret.shape = "pair" /\ ret.exc = "none")

\* What read() returns as coded: a pair from a file and from a live source,
\* where the frame is absent exactly when success is false; the frame
\* alone, without a flag, from an image; no exception from any.
ReadAsCoded ==
    (ret.op = "read" /\ pc = "idle") =>
        /\ ret.exc = "none"
        /\ ret.shape = (IF kind = "image" THEN "frame" ELSE "pair")
        /\ kind # "image" => (ret.ok <=> ret.frame # -1)

\* ---------------------------------------------------------------------
\* C14 as stated.  A playback bar over a reader without the playback
\* capability (an image, a live source) stays a no-op whatever is called on
\* it later, enable() included: no call raises, set_playback_position is
\* never invoked and append_to_frame returns the frame as it got it.
C14_Original ==
    (kind \in {"image", "webcam", "rtsp"} /\ pb_ret.op # "none") =>
        /\ pb_ret.exc = "none"
        /\ pb_ret.set_calls = 0
        /\ ~pb_ret.stacked

\* What holds of the code: the bar is disabled at construction and is a
\* no-op in every call made while it is disabled and no drag is recorded.
DisabledAsCoded ==
    /\ (kind \in {"image", "webcam", "rtsp"} /\ pb_ret.op = "init")
          => ~pb_enable
    /\ (pb_ret.op # "none" /\ ~pb_ret.enabled0 /\ ~pb_ret.pressed0) =>
          /\ pb_ret.exc = "none"
          /\ pb_ret.set_calls = 0
          /\ ~pb_ret.stacked

\* ---------------------------------------------------------------------
\* The stored coordinate pb_x_norm is x over den, clamped to [0, 1].
IsClamped(x, den) ==
    /\ pb_x_norm[2] > 0
    /\ x <= 0 => pb_x_norm[1] = 0
    /\ x >= den => pb_x_norm[1] = pb_x_norm[2]
    /\ (0 < x /\ x < den) => pb_x_norm[1] * den = x * pb_x_norm[2]

\* The drag of a bar over a video file: when the flag changes and what a
\* tick of the enabled bar does.
DragRules ==
    /\ pb_mouse_pressed # pb_ret.pressed0 =>
          /\ pb_ret.op = "mouse" /\ pb_ret.enabled0
          /\ \/ pb_mouse_pressed /\ pb_ret.ev = "LBUTTONDOWN" /\ pb_ret.inband
             \/ ~pb_mouse_pressed /\ pb_ret.ev = "LBUTTONUP"
    /\ (pb_ret.op = "mouse" /\ pb_ret.enabled0 /\ pb_ret.exc = "none") =>
          pb_mouse_pressed =
              (IF pb_ret.ev = "LBUTTONUP" THEN FALSE
               ELSE IF pb_ret.ev = "LBUTTONDOWN" /\ pb_ret.inband THEN TRUE
               ELSE pb_ret.pressed0)
    /\ (pb_ret.op = "tick" /\ pb_ret.enabled0) =>
          /\ pb_ret.exc = "none"
          /\ pb_ret.set_calls = (IF pb_ret.pressed0 THEN 1 ELSE 0)
          /\ pb_ret.set_calls = 1 =>
                (ret.op = "set" /\ <<ret.a, ret.b>> = pb_x_norm)

\* C15 as stated.  For a bar over a video file: the drag starts only on a
\* left-button-down inside the band and lasts until the next
\* left-button-up; a tick calls set_playback_position exactly while the
\* drag is active, with the x of the most recent mouse event divided by
\* the bar's width and clamped to [0, 1].
C15_Original ==
    kind = "video" =>
        /\ DragRules
        /\ (pb_seen.any /\ pb_seen.enabled /\ pb_seen.w >= 2) =>
              IsClamped(pb_seen.x, pb_seen.w)

\* C15 as amended.  The same, the x of the most recent mouse event that
\* reached the enabled bar being divided by the bar's width minus one (the
\* rightmost pixel of the bar is position 1), for a bar at least two
\* pixels wide.
C15_DragControlsPlayback ==
    kind = "video" =>
        /\ DragRules
        /\ (pb_seen.any /\ pb_seen.enabled /\ pb_seen.w >= 2) =>
              IsClamped(pb_seen.x, pb_seen.w - 1)

\* A tick during a drag whose last event was right of the bar: the file
\* was sent to its end.
C15_Witness ==
    /\ kind = "video" /\ pb_ret.op = "tick" /\ pb_ret.enabled0
    /\ pb_ret.set_calls = 1
    /\ pb_seen.enabled /\ pb_seen.x > pb_seen.w - 1 /\ pb_seen.w >= 2
    /\ ret.op = "set" /\ ret.a = ret.b /\ cap_pos = total_frames

\* ---------------------------------------------------------------------
\* C18 as stated.  For a bar over a video file and any interleaving of
\* enable(True), enable(False), mouse events and ticks: a tick calls
\* set_playback_position only when the bar is enabled, and the drag flag
\* does not stay set across a left-button-up received while disabled.
C18_Original ==
    kind = "video" =>
        /\ (pb_ret.op = "tick" /\ pb_ret.set_calls = 1) => pb_ret.enabled0
        /\ (pb_ret.op = "mouse" /\ pb_ret.ev = "LBUTTONUP")
              => ~pb_mouse_pressed

\* What a tick does as coded: it looks at the drag flag alone, and the
\* flag changes only in a mouse event that reaches the enabled bar.
TickAsCoded ==
    kind = "video" =>
        /\ pb_ret.op = "tick" =>
              pb_ret.set_calls = (IF pb_ret.pressed0 THEN 1 ELSE 0)
        /\ (pb_ret.op = "mouse" /\ ~pb_ret.enabled0) =>
              pb_mouse_pressed = pb_ret.pressed0

\* ---------------------------------------------------------------------
\* C19 as stated.  read() of a live source returns at the first fetch that
\* fails or takes longer than the threshold, and only there: a call still
\* in the loop has only made fetches that succeeded in no more than the
\* threshold, and a call that returned did so on a fetch that failed or
\* took longer.
C19_Original ==
    /\ (IsLive /\ pc = "read" /\ nfetch >= 1) =>
          (fetch.ok /\ fetch.d <= 10 * min_read_time_ms)
    /\ (IsLive /\ Finished("read")) =>
          (~fetch.ok \/ fetch.d > 10 * min_read_time_ms)

\* What holds of the code, the time of a fetch being taken in whole
\* milliseconds, truncated: read() stays in its loop after a fetch exactly
\* when that fetch succeeded and measured no more than the threshold, with
\* no bound on the passes, whereas exhaust_buffered_frames never makes
\* more than max_frames_to_exhaust fetches.
ReadReturnsAsCoded ==
    /\ (IsLive /\ pc = "read" /\ nfetch >= 1) =>
          (fetch.ok /\ TimeTakenMs(fetch.d) <= min_read_time_ms)
    /\ (IsLive /\ Finished("read")) =>
          (~fetch.ok \/ TimeTakenMs(fetch.d) > min_read_time_ms)
    /\ (IsLive /\ ret.op = "exhaust") => nfetch <= ex_max
    /\ (IsLive /\ pc = "exhaust") => nfetch < ex_max

\* ---------------------------------------------------------------------
\* C13 as stated.  Once the source is constructed, every path that ends
\* the run has called release() on it exactly once: a quit key, a
\* KeyboardInterrupt, an IOError of advance() in the loop, and a failure
\* between the construction and the start of the loop.
C13_Original ==
    (/\ main_pc = "done"
     /\ \/ main_end.cause \in {"quit", "IOError"}
        \/ main_end.cause = "KeyboardInterrupt" /\ main_end.in_try
        \/ main_end.cause \in {"ZeroDivisionError", "cv2.error"}
              /\ ~main_end.in_try)
    => releases = 1

\* What holds of the code: release() is called once on every run that
\* ends after the try statement was entered, and never on a run that ends
\* before it.
ReleaseAsCoded ==
    /\ releases <= 1
    /\ main_pc = "done" =>
          releases = (IF main_end.in_try THEN 1 ELSE 0)

\* ---------------------------------------------------------------------
\* C20.  The selected index of a selection bar with n >= 1 titles is
\* always in 0..n-1; it changes only in a left-button-down inside the band
\* with 0 < x < bar width on an enabled bar; the handler never divides by
\* zero; so the pair (marker size, max ids) the script hands to the
\* detector is always a key of its table and the lookup of process_frame
\* never fails.
C20_SelectionAlwaysValid ==
    /\ \A b \in Bars : sel[b].idx_select \in 0..(Len(Titles(b)) - 1)
    /\ \A n \in 1..MaxTitles, w \in 2..MaxBarW, x \in 1..MaxBarW :
          x < w => SelectIndex(x, w, n) \in 0..(n - 1)
    /\ sel_ret.exc # "ZeroDivisionError"
    /\ (sel_ret.op # "none" /\ sel[sel_ret.bar].idx_select # sel_ret.idx0) =>
          /\ sel_ret.op = "mouse" /\ sel_ret.ev = "LBUTTONDOWN"
          /\ sel_ret.inband /\ sel_ret.inx /\ sel_ret.enabled0
    /\ det_ret # "none" =>
          (det_ret = "ok" /\ det_select \in DetectorKeys)

\* A click on the rightmost pixel of the size bar, where the clamp to the
\* last title acts, and a detection with the pair selected by it.
C20_Witness ==
    /\ sel_ret.op = "mouse" /\ sel_ret.bar = "size" /\ sel_ret.idx0 = 0
    /\ sel["size"].idx_select = Len(SizeTitles) - 1
    /\ det_ret = "ok" /\ det_select = <<"7x7", "1000">>

====
